---- MODULE Spec2Model ----
(***************************************************************************)
(* The pipe engine of dlt/extract/pipe.py: pipes (ordered step lists with  *)
(* an optional parent), the fork step, graph assembly (clone_pipes,        *)
(* from_pipe, from_pipes) and the dispatcher PipeIterator with its managed *)
(* subclass.                                                               *)
(*                                                                         *)
(* Pipe objects live in `heap` (a sequence, the index is the object's      *)
(* address, 0 is Python's None).  Step indexes are 0-based as in the code, *)
(* so step i of a pipe is steps[i+1].                                      *)
(*                                                                         *)
(* The driver thread runs __next__ one loop iteration phase at a time      *)
(* (pc = "run"); worker threads complete futures in between (FutureDone).  *)
(* Each driver action reads the futures' done flags at one point only, as  *)
(* the code does, so the interleaving with the workers is the code's.      *)
(***************************************************************************)
EXTENDS Integers, Sequences, FiniteSets, TLC

\* ------------------------------------------------------------------ bounds
\* longest list a root pipe is created from
MaxSrcLen == 2
\* PipeIteratorConfiguration.max_parallel_items as configured in the runs
max_parallel_items == 1
\* calls of __next__ that end in StopIteration the caller still makes
MaxStops == 2
\* most transform steps appended to a pipe's head
MaxTransforms == 2

\* ------------------------------------------------------------------ values
\* Python values that travel through the pipes, tagged by what isinstance sees.
None == [t |-> "none"]
Data(n) == [t |-> "data", v |-> n]
\* a fresh iterator object over xs
Iter(xs) == [t |-> "iter", xs |-> xs]
\* what running a deferred task does: return a value or raise
Returns(val) == [raises |-> FALSE, res |-> val]
Fails == [raises |-> TRUE, res |-> None]
\* a zero-argument callable, and an awaitable
Deferred(task) == [t |-> "callable", task |-> task]
Coroutine(task) == [t |-> "awaitable", task |-> task]
\* a meta value attached to an item by the user's code
Meta(m) == [t |-> "meta", m |-> m]
DataItemWithMeta(data, meta) == [t |-> "dwm", data |-> data, meta |-> meta]
ResolvablePipeItem(item, step, pipe, meta) ==
    [t |-> "rpi", item |-> item, step |-> step, pipe |-> pipe, meta |-> meta]
SourcePipeItem(item, step, pipe, meta) ==
    [item |-> item, step |-> step, pipe |-> pipe, meta |-> meta]
FuturePipeItem(item, step, pipe, meta) ==
    [item |-> item, step |-> step, pipe |-> pipe, meta |-> meta]
\* a concurrent.futures / asyncio future: pending, finished or cancelled
Future(pool, task) == [pool |-> pool, task |-> task, state |-> "pending"]

IsIterator(x) == x.t = "iter"
IsAwaitable(x) == x.t = "awaitable"
IsCallable(x) == x.t = "callable"

Range(f) == {f[i] : i \in DOMAIN f}
RemoveAt(s, i) == SubSeq(s, 1, i - 1) \o SubSeq(s, i + 1, Len(s))

\* ------------------------------------------------------------------ steps
NoPipe == 0
\* head of a root pipe: a list (Iterable), turned into an iterator by evaluate_gen
ListHead(xs) == [kind |-> "list", data |-> xs]
IterHead(xs) == [kind |-> "iterator", data |-> xs]
Transform(k) == [kind |-> k]
\* ForkPipe.__init__: a new, mutable object; addr tells it from every other ForkPipe
ForkPipe(pipe, step, copy_on_fork, addr) ==
    [kind |-> "fork", pipes |-> <<[pipe |-> pipe, step |-> step]>>, copy_on_fork |-> copy_on_fork,
     addr |-> addr]

\* The user transforms of the runs; what step(item, meta=meta) does:
\*   inc     lambda x: x + 1
\*   even    lambda x: x if x % 2 == 0 else None
\*   upto    lambda x: iter(range(1, x))
\*   defer   lambda x: (lambda: x * x)            run in the thread pool
\*   async   lambda x: square(x), a coroutine that raises for x == 2
\*   raise2  raises ValueError for x == 2, else returns x
\*   tag     lambda x: DataItemWithMeta("tag", x)
\*   deftag  lambda x: (lambda: DataItemWithMeta("deftag", x))   run in the thread pool
TransformKinds == {"inc", "even", "upto", "defer", "async", "raise2"}

RangeIter(n) == Iter([i \in 1..(IF n > 1 THEN n - 1 ELSE 0) |-> Data(i)])

\* next_item = step(item, meta=meta): the value returned, or the exception raised
\* ("TypeError" for arithmetic on None, "ValueError" raised by the step itself)
CallStep(k, x, meta) ==
    CASE k = "inc" -> IF x.t = "data" THEN [exc |-> "", val |-> Data(x.v + 1)]
                      ELSE [exc |-> "TypeError", val |-> None]
      [] k = "even" -> IF x.t = "data"
                       THEN [exc |-> "", val |-> IF x.v % 2 = 0 THEN x ELSE None]
                       ELSE [exc |-> "TypeError", val |-> None]
      [] k = "upto" -> IF x.t = "data" THEN [exc |-> "", val |-> RangeIter(x.v)]
                       ELSE [exc |-> "TypeError", val |-> None]
      [] k = "defer" -> [exc |-> "", val |-> Deferred(IF x.t = "data" THEN Returns(Data(x.v * x.v)) ELSE Fails)]
      [] k = "async" -> [exc |-> "", val |-> Coroutine(IF x.t = "data" /\ x.v # 2 THEN Returns(Data(x.v * x.v)) ELSE Fails)]
      [] k = "raise2" -> IF x = Data(2) THEN [exc |-> "ValueError", val |-> None]
                         ELSE [exc |-> "", val |-> x]
      [] k = "tag" -> [exc |-> "", val |-> DataItemWithMeta(x, Meta("tag"))]
      [] k = "deftag" -> [exc |-> "", val |-> Deferred(Returns(DataItemWithMeta(x, Meta("deftag"))))]

\* ------------------------------------------------------------------ Pipe
\* Pipe.__init__: a new pipe object; _gen_idx starts at 0, _pipe_id is minted
\* from the object's own address
NewPipe(name, steps, parent, addr) ==
    [name |-> name, steps |-> steps, parent |-> parent, gen_idx |-> 0, pipe_id |-> addr]

\* pipe[i] with Python's indexing (negative i counts from the end)
PipeAt(p, i) == IF i >= 0 THEN p.steps[i + 1] ELSE p.steps[Len(p.steps) + i + 1]

\* bool(pipe): Pipe defines __len__, so an empty pipe is falsy like None
Truthy(h, a) == a # NoPipe /\ Len(h[a].steps) > 0

has_parent(h, a) == h[a].parent # NoPipe

RECURSIVE is_data_bound(_, _)
is_data_bound(h, a) ==
    IF has_parent(h, a) THEN is_data_bound(h, h[a].parent) ELSE Len(h[a].steps) # 0

\* mutant: no pipe is ever found among the edges
has_pipe_Never(fork_step, pipe) == FALSE

\* ForkPipe.has_pipe: membership among the edges' pipes, by object identity
has_pipe(fork_step, pipe) == \E i \in DOMAIN fork_step.pipes : fork_step.pipes[i].pipe = pipe

\* ForkPipe.add_pipe: `pipe not in self._pipes` compares a Pipe with (pipe, step)
\* tuples and so never finds it: the edge is always appended
add_pipe(fork_step, pipe, step) ==
    [fork_step EXCEPT !.pipes = Append(@, [pipe |-> pipe, step |-> step])]

\* Pipe.append_step, for a step that passes the signature checks
append_step(h, a, step) == [h EXCEPT ![a].steps = Append(@, step)]

\* the ForkPipe objects held by the step lists of the heap
ForkAddrs(h) ==
    {h[a].steps[i].addr : <<a, i>> \in {x \in UNION {{<<b, j>> : j \in DOMAIN h[b].steps} : b \in DOMAIN h} :
                                        h[x[1]].steps[x[2]].kind = "fork"}}

\* the address of a ForkPipe object that is made now
NewForkAddr(h) == CHOOSE n \in 1..(Cardinality(ForkAddrs(h)) + 1) : n \notin ForkAddrs(h)

\* A step list holds references: _clone and full_pipe copy the list, not the steps,
\* so one ForkPipe object can stand in several lists. A write to the object is
\* seen through every list that holds it.
SetForkPipe(h, fork_step) ==
    [a \in DOMAIN h |->
        [h[a] EXCEPT !.steps = [i \in DOMAIN h[a].steps |->
            IF h[a].steps[i].kind = "fork" /\ h[a].steps[i].addr = fork_step.addr
            THEN fork_step ELSE h[a].steps[i]]]]

\* Pipe.fork
fork(h, a, child_pipe, child_step, copy_on_fork) ==
    LET n == Len(h[a].steps)
        fork_step == h[a].steps[n]
    IN IF fork_step.kind # "fork"
       THEN append_step(h, a, ForkPipe(child_pipe, child_step, copy_on_fork, NewForkAddr(h)))
       ELSE IF ~has_pipe(fork_step, child_pipe)
            THEN SetForkPipe(h, add_pipe(fork_step, child_pipe, child_step))
            ELSE h

\* Pipe.evaluate_gen of a data bound pipe: a root's list head becomes an iterator
\* (iter() of an iterator is the iterator itself); a transformer is only verified
evaluate_gen(h, a) ==
    LET gen == PipeAt(h[a], h[a].gen_idx)
    IN IF ~has_parent(h, a) /\ gen.kind = "list"
       THEN [h EXCEPT ![a].steps[1] = IterHead(gen.data)]
       ELSE h

\* Pipe._clone: a new object with the same name, parent and a copy of the steps;
\* the constructor leaves _gen_idx at 0
_clone(h, a, keep_pipe_id) ==
    LET addr == Len(h) + 1
        p == NewPipe(h[a].name, h[a].steps, h[a].parent, addr)
    IN Append(h, IF keep_pipe_id THEN [p EXCEPT !.pipe_id = h[a].pipe_id] ELSE p)

\* Pipe.full_pipe: the steps of all ancestors followed by the pipe's own
RECURSIVE full_pipe_steps(_, _)
full_pipe_steps(h, a) ==
    (IF has_parent(h, a) THEN full_pipe_steps(h, h[a].parent) ELSE <<>>) \o h[a].steps

full_pipe(h, a) == Append(h, NewPipe(h[a].name, full_pipe_steps(h, a), NoPipe, Len(h) + 1))

\* ------------------------------------------------------------------ assembly
\* PipeIterator.clone_pipes, the while loop for one clone: st.pairs maps the
\* address of an original to its clone
RECURSIVE FixParents(_, _)
FixParents(st, clone) ==
    LET h == st.heap
        par == h[clone].parent
    IN IF ~Truthy(h, par) THEN st
       ELSE IF par \in Range(st.pairs) THEN st
       ELSE LET st1 == IF par \notin DOMAIN st.pairs
                       THEN [heap |-> _clone(h, par, TRUE),
                             pairs |-> st.pairs @@ (par :> (Len(h) + 1))]
                       ELSE st
                c == st1.pairs[par]
            IN FixParents([st1 EXCEPT !.heap[clone].parent = c], c)

RECURSIVE CloneEach(_, _, _)
CloneEach(st, pipes, i) ==
    IF i > Len(pipes) THEN st
    ELSE CloneEach([heap |-> _clone(st.heap, pipes[i], TRUE),
                    pairs |-> (pipes[i] :> (Len(st.heap) + 1)) @@ st.pairs,
                    cloned |-> Append(st.cloned, Len(st.heap) + 1)], pipes, i + 1)

RECURSIVE FixEach(_, _, _)
FixEach(st, cloned, i) ==
    IF i > Len(cloned) THEN st ELSE FixEach(FixParents(st, cloned[i]), cloned, i + 1)

\* PipeIterator.clone_pipes: the heap with the clones, and the list of clones
clone_pipes(h, pipes) ==
    LET st0 == CloneEach([heap |-> h, pairs |-> <<>>, cloned |-> <<>>], pipes, 1)
        st1 == FixEach([heap |-> st0.heap, pairs |-> st0.pairs], st0.cloned, 1)
    IN [heap |-> st1.heap, pipes |-> st0.cloned]

\* mutant: a head is added as a source every time it is reached
RECURSIVE _fork_pipeline_NoDedup(_, _, _, _, _)
_fork_pipeline_NoDedup(st, pipe, pipes, yield_parents, copy_on_fork) ==
    LET h == st.heap
        par == h[pipe].parent
    IN IF Truthy(h, par)
       THEN LET h1 == evaluate_gen(h, pipe)
                h2 == fork(h1, par, pipe, -1, copy_on_fork)
                h3 == IF yield_parents /\ par \in Range(pipes)
                      THEN fork(h2, par, par, Len(h2[par].steps) - 1, copy_on_fork)
                      ELSE h2
            IN _fork_pipeline_NoDedup([st EXCEPT !.heap = h3], par, pipes, yield_parents, copy_on_fork)
       ELSE LET h1 == evaluate_gen(h, pipe)
                gen == PipeAt(h1[pipe], h1[pipe].gen_idx)
            IN [heap |-> h1,
                sources |-> Append(st.sources, SourcePipeItem(Iter(gen.data), 0, pipe, None))]

\* from_pipes._fork_pipeline
RECURSIVE _fork_pipeline(_, _, _, _, _)
_fork_pipeline(st, pipe, pipes, yield_parents, copy_on_fork) ==
    LET h == st.heap
        par == h[pipe].parent
    IN IF Truthy(h, par)
       THEN LET h1 == evaluate_gen(h, pipe)
                h2 == fork(h1, par, pipe, -1, copy_on_fork)
                h3 == IF yield_parents /\ par \in Range(pipes)
                      THEN fork(h2, par, par, Len(h2[par].steps) - 1, copy_on_fork)
                      ELSE h2
            IN _fork_pipeline([st EXCEPT !.heap = h3], par, pipes, yield_parents, copy_on_fork)
       ELSE LET h1 == evaluate_gen(h, pipe)
                gen == PipeAt(h1[pipe], h1[pipe].gen_idx)
            IN [heap |-> h1,
                sources |-> IF \E i \in DOMAIN st.sources : st.sources[i].pipe = pipe
                            THEN st.sources
                            ELSE Append(st.sources, SourcePipeItem(Iter(gen.data), 0, pipe, None))]

RECURSIVE ForkEach(_, _, _, _, _)
ForkEach(st, pipes, i, yield_parents, copy_on_fork) ==
    IF i < 1 THEN st
    ELSE ForkEach(_fork_pipeline(st, pipes[i], pipes, yield_parents, copy_on_fork),
                  pipes, i - 1, yield_parents, copy_on_fork)

\* PipeIterator.from_pipes: the heap and the sources list of the new dispatcher
from_pipes(h, pipes, yield_parents, copy_on_fork) ==
    LET c == clone_pipes(h, pipes)
    IN ForkEach([heap |-> c.heap, sources |-> <<>>], c.pipes, Len(c.pipes),
                yield_parents, copy_on_fork)

\* PipeIterator.from_pipe
from_pipe(h, pipe) ==
    LET h1 == IF Truthy(h, h[pipe].parent) THEN full_pipe(h, pipe) ELSE h
        p1 == IF Truthy(h, h[pipe].parent) THEN Len(h1) ELSE pipe
        h2 == _clone(h1, p1, TRUE)
        p2 == Len(h2)
        h3 == evaluate_gen(h2, p2)
        gen == PipeAt(h3[p2], h3[p2].gen_idx)
    IN [heap |-> h3, sources |-> <<SourcePipeItem(Iter(gen.data), 0, p2, None)>>]

\* ------------------------------------------------------------------ state
VARIABLES
    heap,             \* the Pipe objects
    input,            \* the arguments the dispatcher was built from
    managed,          \* the dispatcher is a ManagedPipeIterator
    sources,          \* PipeIterator._sources
    futures,          \* PipeIterator._futures
    thread_pool,      \* PipeIterator._thread_pool is set
    async_pool,       \* PipeIterator._async_pool and its thread are set
    context_manager,  \* ManagedPipeIterator._context_manager is set
    ctx_exits,        \* the arguments of the context manager's __exit__ calls
    pc,               \* "idle" between calls of __next__, "run" inside one
    pipe_item,        \* the local pipe_item of __next__
    last,             \* how the last call of __next__ ended
    yielded,          \* the PipeItems returned so far
    stats             \* counts over the run

vars == <<heap, input, managed, sources, futures, thread_pool, async_pool,
          context_manager, ctx_exits, pc, pipe_item, last, yielded, stats>>

\* ------------------------------------------------------------------ dispatcher
done(future) == future.state # "pending"

\* mutant: the done future submitted last is taken
_next_future_Last(fs) ==
    IF \E i \in DOMAIN fs : done(fs[i].item)
    THEN (CHOOSE i \in DOMAIN fs : done(fs[i].item) /\ \A j \in (i + 1)..Len(fs) : ~done(fs[j].item)) - 1
    ELSE -1

\* PipeIterator._next_future: 0-based index of the first done future, or -1
_next_future(fs) ==
    IF \E i \in DOMAIN fs : done(fs[i].item)
    THEN (CHOOSE i \in DOMAIN fs : done(fs[i].item) /\ \A j \in 1..(i - 1) : ~done(fs[j].item)) - 1
    ELSE -1

\* mutant: a failed future is skipped like a cancelled one
RECURSIVE _resolve_futures_Swallow(_)
_resolve_futures_Swallow(fs) ==
    IF \A i \in DOMAIN fs : fs[i].item.state = "pending"
    THEN [futures |-> fs, exc |-> "", item |-> None]
    ELSE LET idx == _next_future(fs)
             f == fs[idx + 1]
             rest == RemoveAt(fs, idx + 1)
         IN IF f.item.state = "cancelled" \/ f.item.task.raises
            THEN _resolve_futures_Swallow(rest)
            ELSE [futures |-> rest, exc |-> "",
                  item |-> ResolvablePipeItem(f.item.task.res, f.step, f.pipe, f.meta)]

\* PipeIterator._resolve_futures: the futures list afterwards, and the exception
\* raised or the item returned
RECURSIVE _resolve_futures(_)
_resolve_futures(fs) ==
    IF Len(fs) = 0 THEN [futures |-> fs, exc |-> "", item |-> None]
    ELSE LET idx == _next_future(fs) IN
         IF idx = -1 THEN [futures |-> fs, exc |-> "", item |-> None]
         ELSE LET f == fs[idx + 1]
                  rest == RemoveAt(fs, idx + 1)
              IN IF f.item.state = "cancelled" THEN _resolve_futures(rest)
                 ELSE IF f.item.task.raises
                      THEN [futures |-> rest, exc |-> "TaskError", item |-> None]
                      ELSE LET item == f.item.task.res IN
                           [futures |-> rest, exc |-> "",
                            item |-> IF item.t = "dwm"
                                     THEN ResolvablePipeItem(item.data, f.step, f.pipe, item.meta)
                                     ELSE ResolvablePipeItem(item, f.step, f.pipe, f.meta)]

\* mutant: an exhausted source takes the source below it along
RECURSIVE _get_source_item_PopTwo(_)
_get_source_item_PopTwo(srcs) ==
    IF Len(srcs) = 0 THEN [sources |-> srcs, item |-> None]
    ELSE LET top == srcs[Len(srcs)] IN
         IF Len(top.item.xs) = 0
         THEN _get_source_item_PopTwo(SubSeq(srcs, 1, Len(srcs) - 2))
         ELSE [sources |-> [srcs EXCEPT ![Len(srcs)].item.xs = Tail(@)],
               item |-> IF Head(top.item.xs).t = "rpi" THEN Head(top.item.xs)
                        ELSE ResolvablePipeItem(Head(top.item.xs), top.step, top.pipe, top.meta)]

\* mutant: the newest source is read from its end
RECURSIVE _get_source_item_Reversed(_)
_get_source_item_Reversed(srcs) ==
    IF Len(srcs) = 0 THEN [sources |-> srcs, item |-> None]
    ELSE LET top == srcs[Len(srcs)]
             n == Len(top.item.xs)
         IN IF n = 0
            THEN _get_source_item_Reversed(SubSeq(srcs, 1, Len(srcs) - 1))
            ELSE [sources |-> [srcs EXCEPT ![Len(srcs)].item.xs = SubSeq(@, 1, n - 1)],
                  item |-> IF top.item.xs[n].t = "rpi" THEN top.item.xs[n]
                           ELSE ResolvablePipeItem(top.item.xs[n], top.step, top.pipe, top.meta)]

\* mutant: the oldest source is read first
RECURSIVE _get_source_item_Oldest(_)
_get_source_item_Oldest(srcs) ==
    IF Len(srcs) = 0 THEN [sources |-> srcs, item |-> None]
    ELSE LET top == srcs[1] IN
         IF Len(top.item.xs) = 0
         THEN _get_source_item_Oldest(Tail(srcs))
         ELSE LET item == Head(top.item.xs) IN
              [sources |-> [srcs EXCEPT ![1].item.xs = Tail(@)],
               item |-> IF item.t = "rpi" THEN item
                        ELSE IF item.t = "dwm"
                             THEN ResolvablePipeItem(item.data, top.step, top.pipe, item.meta)
                             ELSE ResolvablePipeItem(item, top.step, top.pipe, top.meta)]

\* PipeIterator._get_source_item: the sources list afterwards and the item returned
RECURSIVE _get_source_item(_)
_get_source_item(srcs) ==
    IF Len(srcs) = 0 THEN [sources |-> srcs, item |-> None]
    ELSE LET top == srcs[Len(srcs)] IN
         IF Len(top.item.xs) = 0
         THEN _get_source_item(SubSeq(srcs, 1, Len(srcs) - 1))
         ELSE LET item == Head(top.item.xs)
                  srcs1 == [srcs EXCEPT ![Len(srcs)].item.xs = Tail(@)]
              IN [sources |-> srcs1,
                  item |-> IF item.t = "rpi" THEN item
                           ELSE IF item.t = "dwm"
                                THEN ResolvablePipeItem(item.data, top.step, top.pipe, item.meta)
                                ELSE ResolvablePipeItem(item, top.step, top.pipe, top.meta)]

\* __next__, lines 419-433: what the search for a new item comes back with
NewItem(fs, srcs) ==
    LET r == IF Len(fs) > 0 THEN _resolve_futures(fs)
             ELSE [futures |-> fs, exc |-> "", item |-> None]
    IN IF r.exc # "" \/ r.item # None
       THEN [futures |-> r.futures, sources |-> srcs, exc |-> r.exc, item |-> r.item, from |-> "future"]
       ELSE LET g == _get_source_item(srcs) IN
            [futures |-> r.futures, sources |-> g.sources, exc |-> "", item |-> g.item, from |-> "source"]

\* mutant: only the sources are looked at
NoMoreElements_SourcesOnly(fs, srcs) == Len(srcs) = 0

\* __next__, line 428
NoMoreElements(fs, srcs) == Len(fs) = 0 /\ Len(srcs) = 0

\* mutant: a full list still counts as a free slot
HasFreeSlot_Inclusive(fs) == Len(fs) <= max_parallel_items \/ _next_future(fs) >= 0

\* mutant: the last slot is never given out
HasFreeSlot_Strict(fs) == Len(fs) < max_parallel_items - 1 \/ _next_future(fs) >= 0

\* mutant: every item is admitted
HasFreeSlot_Always(fs) == TRUE

\* __next__, line 445: a free slot, or one of the slots is done
HasFreeSlot(fs) == Len(fs) < max_parallel_items \/ _next_future(fs) >= 0

\* mutant: the item is returned one step early
AtEndOfPipe_Early(h, pi) == pi.step >= Len(h[pi.pipe].steps) - 2

\* mutant: step -1 counts as the last step of the pipe
AtEndOfPipe_Negative(h, pi) == pi.step = Len(h[pi.pipe].steps) - 1 \/ pi.step = -1

\* __next__, line 462
AtEndOfPipe(h, pi) == pi.step = Len(h[pi.pipe].steps) - 1

\* __next__, line 464
Unresolved(item) == IsIterator(item) \/ IsAwaitable(item) \/ IsCallable(item)

\* mutant: an iterator standing at the end of its pipe is not expanded
IsNewSource_NotAtEnd(h, pi) == IsIterator(pi.item) /\ ~AtEndOfPipe(h, pi)

\* __next__, line 437: an iterator item becomes a new source, wherever it stands
IsNewSource(h, pi) == IsIterator(pi.item)

\* mutant: only the first edge gets the item
ForkCall_FirstOnly(fork_step, item, meta) ==
    Iter(<<ResolvablePipeItem(item, fork_step.pipes[1].step, fork_step.pipes[1].pipe, meta)>>)

\* copy(item): a new object with the same contents, told from the original by
\* its mark
copy(item) == [copied |-> TRUE] @@ item

\* ForkPipe.__call__: one ResolvablePipeItem per edge; the first edge gets the
\* item itself, the others a copy if the Fork's copy_on_fork is set
ForkCall(fork_step, item, meta) ==
    Iter([i \in DOMAIN fork_step.pipes |->
            ResolvablePipeItem(IF i = 1 \/ ~fork_step.copy_on_fork THEN item ELSE copy(item),
                               fork_step.pipes[i].step, fork_step.pipes[i].pipe, meta)])

\* mutant: the meta of a DataItemWithMeta returned by a step is ignored
NextStep_KeepMeta(h, pi) ==
    LET step == PipeAt(h[pi.pipe], pi.step + 1)
        r == IF step.kind = "fork" THEN [exc |-> "", val |-> ForkCall(step, pi.item, pi.meta)]
             ELSE CallStep(step.kind, pi.item, pi.meta)
    IN IF r.exc = "TypeError" THEN [exc |-> "InvalidStepFunctionArguments", item |-> None, meta |-> pi.meta]
       ELSE IF r.exc # "" THEN [exc |-> r.exc, item |-> None, meta |-> pi.meta]
       ELSE IF r.val.t = "dwm" THEN [exc |-> "", item |-> r.val.data, meta |-> pi.meta]
       ELSE [exc |-> "", item |-> r.val, meta |-> pi.meta]

\* __next__, lines 471-480: the next step called on the item
NextStep(h, pi) ==
    LET step == PipeAt(h[pi.pipe], pi.step + 1)
        r == IF step.kind = "fork" THEN [exc |-> "", val |-> ForkCall(step, pi.item, pi.meta)]
             ELSE CallStep(step.kind, pi.item, pi.meta)
    IN IF r.exc = "TypeError" THEN [exc |-> "InvalidStepFunctionArguments", item |-> None, meta |-> pi.meta]
       ELSE IF r.exc # "" THEN [exc |-> r.exc, item |-> None, meta |-> pi.meta]
       ELSE IF r.val.t = "dwm" THEN [exc |-> "", item |-> r.val.data, meta |-> r.val.meta]
       ELSE [exc |-> "", item |-> r.val, meta |-> pi.meta]

\* PipeIterator.close: the lists are cleared (futures not done are cancelled,
\* generators closed), the async loop is stopped and joined, the pool shut down
close_futures(fs) == <<>>
\* mutant: the futures are dropped from the list without being cancelled
cancel_futures_None(fs) == fs
\* PipeIterator.close, lines 492-494: every future that is not done is cancelled
cancel_futures(fs) ==
    [i \in DOMAIN fs |-> IF done(fs[i].item) THEN fs[i]
                         ELSE [fs[i] EXCEPT !.item.state = "cancelled"]]
\* mutant: the sources are closed but stay listed
close_sources_Keep(srcs) == srcs
close_sources(srcs) == <<>>

\* ------------------------------------------------------------------ counts
\* the number of tails an item standing at step s of pipe p is routed to
RECURSIVE NTails(_, _, _)
NTails(h, p, s) ==
    LET n == Len(h[p].steps)
        tail == h[p].steps[n]
        Sum[i \in 0..Len(tail.pipes)] ==
            IF i = 0 THEN 0 ELSE Sum[i - 1] + NTails(h, tail.pipes[i].pipe, tail.pipes[i].step)
    IN IF s < n - 1 /\ tail.kind = "fork" THEN Sum[Len(tail.pipes)] ELSE 1

\* the item the next read of the sources delivers, as the iterator holds it
RECURSIVE NextRaw(_)
NextRaw(srcs) ==
    IF Len(srcs) = 0 THEN None
    ELSE IF Len(srcs[Len(srcs)].item.xs) = 0 THEN NextRaw(SubSeq(srcs, 1, Len(srcs) - 1))
    ELSE Head(srcs[Len(srcs)].item.xs)

IsRouting(it) == Len(it.xs) > 0 /\ it.xs[1].t = "rpi"
HasItems(srcs) == \E i \in DOMAIN srcs : Len(srcs[i].item.xs) > 0

\* the futures of fs whose task is neither finished nor cancelled
Unfinished(fs) == Cardinality({i \in DOMAIN fs : fs[i].item.state = "pending"})

\* the counts after close() has gone through the futures fs
AfterClose(st, fs) ==
    LET k == Unfinished(fs) - Unfinished(cancel_futures(fs))
    IN [st EXCEPT !.cancelled = @ + k, !.running = @ - k]

\* mutant: the context manager is always exited as after a normal end
exit_args_AlwaysNone(exc) == "None"
\* ManagedPipeIterator.__next__, lines 640-643: what __exit__ is called with
exit_args(exc) == IF exc = "StopIteration" THEN "None" ELSE exc

\* ------------------------------------------------------------------ actions
NeedItem == pc = "run" /\ pipe_item = None
HaveItem == pc = "run" /\ pipe_item # None

\* an exception leaves PipeIterator.__next__ with the lists fs and srcs;
\* ManagedPipeIterator.__next__ exits the context manager, closes and re-raises
Raise(exc, fs, srcs) ==
    /\ pc' = "idle"
    /\ last' = exc
    /\ pipe_item' = None
    /\ IF managed
       THEN /\ ctx_exits' = IF context_manager
                            THEN Append(ctx_exits, exit_args(exc))
                            ELSE ctx_exits
            /\ futures' = close_futures(fs)
            /\ sources' = close_sources(srcs)
            /\ thread_pool' = FALSE
            /\ async_pool' = FALSE
       ELSE /\ futures' = fs
            /\ sources' = srcs
            /\ UNCHANGED <<ctx_exits, thread_pool, async_pool>>
    /\ UNCHANGED <<heap, input, managed, context_manager, yielded>>

Failure(exc, fs, srcs) ==
    /\ Raise(exc, fs, srcs)
    /\ LET st == [stats EXCEPT !.failed = TRUE,
                                !.cut = @ \/ (managed /\ (HasItems(srcs) \/ Len(fs) > 0))]
       IN stats' = IF managed THEN AfterClose(st, fs) ELSE st

\* lines 413-414: the caller calls __next__
Call ==
    /\ pc = "idle"
    /\ stats.stops < MaxStops
    /\ pc' = "run"
    /\ pipe_item' = None
    /\ UNCHANGED <<heap, input, managed, sources, futures, thread_pool, async_pool,
                   context_manager, ctx_exits, last, yielded, stats>>

\* lines 419-425: a done future is drained and its result is the new item
TakeFuture ==
    /\ NeedItem
    /\ LET n == NewItem(futures, sources) IN
       /\ n.from = "future" /\ n.exc = ""
       /\ pipe_item' = n.item
       /\ futures' = n.futures
       /\ sources' = n.sources
    /\ pc' = "run"
    /\ UNCHANGED <<heap, input, managed, thread_pool, async_pool, context_manager,
                   ctx_exits, last, yielded, stats>>

\* lines 564-565: the drained future failed
FutureFailed ==
    /\ NeedItem
    /\ LET n == NewItem(futures, sources) IN
       /\ n.exc # ""
       /\ Failure(n.exc, n.futures, n.sources)

\* lines 424-425: nothing done, the newest source delivers the new item
TakeSource ==
    /\ NeedItem
    /\ LET n == NewItem(futures, sources) IN
       /\ n.from = "source" /\ n.item # None
       /\ pipe_item' = n.item
       /\ futures' = n.futures
       /\ sources' = n.sources
       /\ stats' = IF NextRaw(sources).t = "rpi" THEN stats
                   ELSE [stats EXCEPT !.pulled = @ + 1]
    /\ pc' = "run"
    /\ UNCHANGED <<heap, input, managed, thread_pool, async_pool, context_manager,
                   ctx_exits, last, yielded>>

\* lines 427-433: no item, futures outstanding: sleep and retry
Sleep ==
    /\ NeedItem
    /\ LET n == NewItem(futures, sources) IN
       /\ n.exc = "" /\ n.item = None
       /\ ~NoMoreElements(n.futures, n.sources)
       /\ futures' = n.futures
       /\ sources' = n.sources
    /\ pc' = "run"
    /\ UNCHANGED <<heap, input, managed, thread_pool, async_pool, context_manager,
                   ctx_exits, pipe_item, last, yielded, stats>>

\* lines 428-430
StopIteration ==
    /\ NeedItem
    /\ LET n == NewItem(futures, sources) IN
       /\ n.exc = "" /\ n.item = None
       /\ NoMoreElements(n.futures, n.sources)
       /\ Raise("StopIteration", n.futures, n.sources)
    /\ stats' = [stats EXCEPT !.stops = @ + 1]

\* lines 437-441: an iterator becomes the newest source
AddSource ==
    /\ HaveItem
    /\ IsNewSource(heap, pipe_item)
    /\ sources' = Append(sources, SourcePipeItem(pipe_item.item, pipe_item.step,
                                                 pipe_item.pipe, pipe_item.meta))
    /\ pipe_item' = None
    /\ stats' = IF IsRouting(pipe_item.item) THEN stats
                ELSE LET w == NTails(heap, pipe_item.pipe, pipe_item.step) IN
                     [stats EXCEPT !.replaced = @ + w,
                                   !.spawned = @ + w * Len(pipe_item.item.xs)]
    /\ UNCHANGED <<heap, input, managed, futures, thread_pool, async_pool, context_manager,
                   ctx_exits, pc, last, yielded>>

\* lines 443-454: a callable goes to the thread pool, an awaitable to the async loop
Submit ==
    /\ HaveItem
    /\ ~IsNewSource(heap, pipe_item)
    /\ IsAwaitable(pipe_item.item) \/ IsCallable(pipe_item.item)
    /\ HasFreeSlot(futures)
    /\ LET pool == IF IsAwaitable(pipe_item.item) THEN "async" ELSE "thread" IN
       /\ futures' = Append(futures, FuturePipeItem(Future(pool, pipe_item.item.task),
                                 pipe_item.step, pipe_item.pipe, pipe_item.meta))
       /\ async_pool' = (async_pool \/ pool = "async")
       /\ thread_pool' = (thread_pool \/ pool = "thread")
    /\ pipe_item' = None
    /\ stats' = [stats EXCEPT !.running = @ + 1]
    /\ UNCHANGED <<heap, input, managed, sources, context_manager, ctx_exits, pc, last,
                   yielded>>

\* lines 455-459: no free slot: sleep and try the same item later
WaitForSlot ==
    /\ HaveItem
    /\ ~IsNewSource(heap, pipe_item)
    /\ IsAwaitable(pipe_item.item) \/ IsCallable(pipe_item.item)
    /\ ~HasFreeSlot(futures)
    /\ UNCHANGED vars

\* lines 462-468: the item is at the end of its pipe and is returned
Yield ==
    /\ HaveItem
    /\ ~IsNewSource(heap, pipe_item)
    /\ ~(IsAwaitable(pipe_item.item) \/ IsCallable(pipe_item.item))
    /\ AtEndOfPipe(heap, pipe_item)
    /\ IF Unresolved(pipe_item.item)
       THEN Failure("PipeItemProcessingError", futures, sources)
       ELSE /\ yielded' = Append(yielded, [item |-> pipe_item.item, step |-> pipe_item.step,
                                           pipe |-> pipe_item.pipe, meta |-> pipe_item.meta])
            /\ pc' = "idle"
            /\ last' = "item"
            /\ pipe_item' = None
            /\ UNCHANGED <<heap, input, managed, sources, futures, thread_pool, async_pool,
                           context_manager, ctx_exits, stats>>

Advancing ==
    /\ HaveItem
    /\ ~IsNewSource(heap, pipe_item)
    /\ ~(IsAwaitable(pipe_item.item) \/ IsCallable(pipe_item.item))
    /\ ~AtEndOfPipe(heap, pipe_item)

\* lines 470-483: the next step returns a value
Advance ==
    /\ Advancing
    /\ LET r == NextStep(heap, pipe_item) IN
       /\ r.exc = "" /\ r.item # None
       /\ pipe_item' = ResolvablePipeItem(r.item, pipe_item.step + 1, pipe_item.pipe, r.meta)
    /\ UNCHANGED <<heap, input, managed, sources, futures, thread_pool, async_pool,
                   context_manager, ctx_exits, pc, last, yielded, stats>>

\* lines 484-485: the next step returns None, the item is dropped
Drop ==
    /\ Advancing
    /\ LET r == NextStep(heap, pipe_item) IN
       /\ r.exc = "" /\ r.item = None
    /\ pipe_item' = None
    /\ stats' = [stats EXCEPT !.dropped = @ + NTails(heap, pipe_item.pipe, pipe_item.step)]
    /\ UNCHANGED <<heap, input, managed, sources, futures, thread_pool, async_pool,
                   context_manager, ctx_exits, pc, last, yielded>>

\* lines 473-480: the next step raises
StepRaises ==
    /\ Advancing
    /\ LET r == NextStep(heap, pipe_item) IN
       /\ r.exc # ""
       /\ Failure(r.exc, futures, sources)

\* a worker thread or the async loop finishes the task of a pending future
FutureDone ==
    \E i \in DOMAIN futures :
        /\ futures[i].item.state = "pending"
        /\ futures' = [futures EXCEPT ![i].item.state = "finished"]
        /\ stats' = [stats EXCEPT !.running = @ - 1]
        /\ UNCHANGED <<heap, input, managed, sources, thread_pool, async_pool,
                       context_manager, ctx_exits, pc, pipe_item, last, yielded>>

\* ManagedPipeIterator.set_context_manager, called once by the owner
set_context_manager ==
    /\ managed
    /\ pc = "idle"
    /\ ~context_manager
    /\ ctx_exits = <<>>
    /\ context_manager' = TRUE
    /\ UNCHANGED <<heap, input, managed, sources, futures, thread_pool, async_pool,
                   ctx_exits, pc, pipe_item, last, yielded, stats>>

\* PipeIterator.close (also __exit__ of the with block), called between two __next__
close ==
    /\ pc = "idle"
    /\ futures' = close_futures(futures)
    /\ sources' = close_sources(sources)
    /\ thread_pool' = FALSE
    /\ async_pool' = FALSE
    /\ stats' = AfterClose([stats EXCEPT !.cut = @ \/ HasItems(sources) \/ Len(futures) > 0],
                            futures)
    /\ UNCHANGED <<heap, input, managed, context_manager, ctx_exits, pc, pipe_item,
                   last, yielded>>

Driver ==
    \/ Call
    \/ TakeFuture
    \/ FutureFailed
    \/ TakeSource
    \/ Sleep
    \/ StopIteration
    \/ AddSource
    \/ Submit
    \/ WaitForSlot
    \/ Yield
    \/ Advance
    \/ Drop
    \/ StepRaises

Next ==
    \/ Driver
    \/ FutureDone
    \/ set_context_manager
    \/ close

\* ------------------------------------------------------------------ runs
\* the items a root pipe's list holds, and the lists
SrcVals == {Data(1), Data(2), None}
SeqsUpTo(S, n) == UNION {[1..k -> S] : k \in 0..n}
Lists == SeqsUpTo(SrcVals, MaxSrcLen)
Chains == SeqsUpTo(TransformKinds, MaxTransforms)
Steps(chain) == [i \in DOMAIN chain |-> Transform(chain[i])]

\* Pipe("p", [xs, *chain]) handed to from_pipe
LinearSetups ==
    {[mode |-> "from_pipe",
      heap |-> <<NewPipe("p", <<ListHead(xs)>> \o Steps(c), NoPipe, 1)>>,
      pipes |-> <<1>>, yield_parents |-> FALSE, copy_on_fork |-> FALSE] :
        xs \in Lists, c \in Chains}

\* a root pipe "parent" and two transformer pipes on it, handed to from_pipes
ForkSetups ==
    {[mode |-> "from_pipes",
      heap |-> <<NewPipe("parent", <<ListHead(xs)>>, NoPipe, 1),
                 NewPipe("c1", <<Transform(k1)>>, 1, 2),
                 NewPipe("c2", <<Transform(k2)>>, 1, 3)>>,
      pipes |-> ps, yield_parents |-> yp, copy_on_fork |-> FALSE] :
        xs \in Lists, k1 \in TransformKinds, k2 \in {"inc", "even"},
        ps \in {<<1, 2, 3>>, <<2, 3>>, <<1, 2>>}, yp \in BOOLEAN}

Setups == LinearSetups \cup ForkSetups

Build(s) ==
    IF s.mode = "from_pipe" THEN from_pipe(s.heap, s.pipes[1])
    ELSE from_pipes(s.heap, s.pipes, s.yield_parents, s.copy_on_fork)

\* PipeIterator.__init__ followed by from_pipe / from_pipes
Init ==
    \E s \in Setups, m \in BOOLEAN :
        /\ heap = Build(s).heap
        /\ sources = Build(s).sources
        /\ input = [mode |-> s.mode, pipes |-> s.pipes, yield_parents |-> s.yield_parents]
        /\ managed = m
        /\ futures = <<>>
        /\ thread_pool = FALSE
        /\ async_pool = FALSE
        /\ context_manager = FALSE
        /\ ctx_exits = <<>>
        /\ pc = "idle"
        /\ pipe_item = None
        /\ last = "none"
        /\ yielded = <<>>
        /\ stats = [pulled |-> 0, spawned |-> 0, replaced |-> 0, dropped |-> 0,
                    stops |-> 0, failed |-> FALSE, cut |-> FALSE,
                    running |-> 0, cancelled |-> 0]

Spec == Init /\ [][Next]_vars

\* the caller keeps calling __next__ and the driver thread keeps running; every
\* submitted task finishes
FairSpec == Spec /\ WF_vars(Driver) /\ WF_vars(FutureDone)

\* ------------------------------------------------------------------ claims
Pending(fs) == Cardinality({i \in DOMAIN fs : fs[i].item.state = "pending"})
FirstDone(fs, i) ==
    /\ i \in DOMAIN fs
    /\ fs[i].item.state # "pending"
    /\ \A j \in 1..(i - 1) : fs[j].item.state = "pending"

\* C1 as claimed: in every reachable state the futures list holds at most
\* max_parallel_items entries.
C1_FuturesListWithinCap == Len(futures) <= max_parallel_items

\* C1 amended: at most max_parallel_items listed futures are not done; the list is
\* one entry longer only inside a call of __next__, while it still holds a done
\* future that the next search for an item drains; between two calls of __next__
\* it holds at most max_parallel_items entries.
C1_InFlightWithinCap ==
    /\ Pending(futures) <= max_parallel_items
    /\ Len(futures) <= max_parallel_items + 1
    /\ Len(futures) = max_parallel_items + 1 =>
           pc = "run" /\ pipe_item = None /\ Pending(futures) < Len(futures)
    /\ pc = "idle" => Len(futures) <= max_parallel_items

C1_Witness == Len(futures) = max_parallel_items + 1

\* C2: no PipeItem returned by __next__ has item None, whatever the sources, the
\* iterators returned by transforms and the futures deliver.
C2_NeverYieldsNone == \A i \in DOMAIN yielded : yielded[i].item # None

\* C3: every PipeItem returned by __next__ is resolved (no iterator, awaitable or
\* callable) and stands at the last step of the pipe it is attributed to.
C3_YieldedResolved ==
    \A i \in DOMAIN yielded :
        /\ yielded[i].item.t \in {"data", "none"}
        /\ yielded[i].step = Len(heap[yielded[i].pipe].steps) - 1

C3_Witness ==
    /\ Len(yielded) > 0
    /\ stats.replaced > 0
    /\ thread_pool
    /\ yielded[Len(yielded)].step > 0

\* C4: __next__ raises StopIteration only when no future is listed and no source
\* is left; with a future listed and nothing to take it sleeps and retries, and
\* keeps every listed future.
C4_StopOnlyWhenEmpty ==
    [][/\ stats'.stops # stats.stops =>
              /\ futures = <<>> /\ ~HasItems(sources)
              /\ futures' = <<>> /\ sources' = <<>>
       /\ (NeedItem /\ Len(futures) > 0 /\ Pending(futures) = Len(futures) /\ ~HasItems(sources)) =>
              /\ pc' = "run" /\ last' = last
              /\ Len(futures') = Len(futures)]_vars

C4_Witness ==
    /\ last = "StopIteration"
    /\ ~managed
    /\ async_pool
    /\ Len(yielded) > 0
    /\ ~stats.cut

\* a run to completion without failures: StopIteration was raised, no call failed
\* and close() discarded nothing
Completed == pc = "idle" /\ last = "StopIteration" /\ ~stats.failed /\ ~stats.cut

\* C5: with finite sources and iterators, tasks that finish and a driver that is
\* called again and again, __next__ eventually raises StopIteration.
C5_RunsToCompletion == <>(last = "StopIteration")

C5_Witness ==
    /\ last = "StopIteration"
    /\ thread_pool
    /\ async_pool
    /\ stats.pulled >= MaxSrcLen

\* the items the root sources hold, each counted once per tail it is routed to
RootItems ==
    LET Sum[a \in 0..Len(heap)] ==
            IF a = 0 THEN 0
            ELSE Sum[a - 1] + (IF Len(heap[a].steps) > 0 /\ heap[a].steps[1].kind = "iterator"
                               THEN Len(heap[a].steps[1].data) * NTails(heap, a, 0)
                               ELSE 0)
    IN Sum[Len(heap)]

\* the items all source iterators hold: the roots and the iterators steps returned
Produced == RootItems + stats.spawned

\* C6 as claimed: after a run to completion without failures the number of items
\* yielded is the number of items the sources produced (counted once per tail they
\* are routed to) minus the number of items a transform answered with None.
C6_YieldedIsProducedMinusDropped ==
    Completed => Len(yielded) = Produced - stats.dropped

\* C6 amended: ... minus the items a transform answered with None and minus the
\* items that were replaced by an iterator (whose items are counted instead).
C6_Conservation ==
    Completed => Len(yielded) = Produced - stats.dropped - stats.replaced

C6_Witness ==
    /\ Completed
    /\ stats.replaced > 0
    /\ stats.dropped > 0
    /\ Len(yielded) > 0

\* the values a linear pipe of synchronous transforms yields for the item x that
\* stands at step s: none when a step answers None or raises
SyncKinds == {"inc", "even", "raise2"}
RECURSIVE ChainValue(_, _, _)
ChainValue(p, s, x) ==
    IF s = Len(p.steps) - 1 THEN <<x>>
    ELSE LET r == CallStep(PipeAt(p, s + 1).kind, x, None) IN
         IF r.exc # "" \/ r.val = None THEN <<>> ELSE ChainValue(p, s + 1, r.val)

RECURSIVE ChainAll(_, _)
ChainAll(p, xs) ==
    IF xs = <<>> THEN <<>> ELSE ChainValue(p, 0, Head(xs)) \o ChainAll(p, Tail(xs))

LinearSync ==
    /\ input.mode = "from_pipe"
    /\ \A i \in 2..Len(heap[input.pipes[1]].steps) : heap[input.pipes[1]].steps[i].kind \in SyncKinds

\* C7: a single linear pipe of synchronous transforms yields exactly the transform
\* chain applied to the source items read so far, dropped items left out, in the
\* order of the source.
C7_LinearOrder ==
    LinearSync =>
        LET p == heap[input.pipes[1]]
            n == stats.pulled - (IF pipe_item # None THEN 1 ELSE 0)
        IN /\ Len(yielded) = Len(ChainAll(p, SubSeq(p.steps[1].data, 1, n)))
           /\ \A i \in DOMAIN yielded :
                  yielded[i].item = ChainAll(p, SubSeq(p.steps[1].data, 1, n))[i]

C7_Witness ==
    /\ LinearSync
    /\ Completed
    /\ Len(heap[input.pipes[1]].steps) > 1
    /\ Len(yielded) >= 2
    /\ yielded[1].item # yielded[2].item

\* from_pipes was given the root pipe (object 1) and transformer pipes on it, with
\* yield_parents
ForkRun == input.mode = "from_pipes" /\ input.yield_parents /\ 1 \in Range(input.pipes)
\* every child's transform answers every source item with a data item
PlainChildren ==
    \A c \in Range(input.pipes) \ {1} : \A j \in DOMAIN heap[1].steps[1].data :
        LET r == CallStep(heap[c].steps[1].kind, heap[1].steps[1].data[j], None)
        IN r.exc = "" /\ r.val.t = "data"
YieldedTo(name, val) ==
    Cardinality({i \in DOMAIN yielded : heap[yielded[i].pipe].name = name /\ yielded[i].item = val})
ExpectedFor(a, val) ==
    Cardinality({j \in DOMAIN heap[1].steps[1].data :
                    IF a = 1 THEN heap[1].steps[1].data[j] = val
                    ELSE CallStep(heap[a].steps[1].kind, heap[1].steps[1].data[j], None).val = val})

\* C8: from_pipes on a root pipe and its transformer children with yield_parents:
\* each source item v yields one item with value v for the parent and one item
\* with the child's transform applied to v for each child, and nothing else.
C8_ForkFanOut ==
    (ForkRun /\ PlainChildren /\ Completed) =>
        /\ Len(yielded) = Len(heap[1].steps[1].data) * Len(input.pipes)
        /\ \A a \in Range(input.pipes) : \A i \in DOMAIN yielded :
               YieldedTo(heap[a].name, yielded[i].item) = ExpectedFor(a, yielded[i].item)

C8_Witness ==
    /\ ForkRun /\ PlainChildren /\ Completed
    /\ Len(input.pipes) = 3
    /\ Len(yielded) >= 6

\* C9: when __next__ drains a done future whose task failed it raises the task's
\* exception, the future leaves the list and nothing is returned.
C9_FutureFailureRaised ==
    [][\A i \in DOMAIN futures :
          (/\ NeedItem
           /\ FirstDone(futures, i)
           /\ futures[i].item.state = "finished"
           /\ futures[i].item.task.raises
           /\ (pc' # pc \/ pipe_item' # pipe_item \/ Len(futures') # Len(futures)))
          => /\ pc' = "idle"
             /\ last' = "TaskError"
             /\ yielded' = yielded
             /\ futures' = IF managed THEN <<>> ELSE RemoveAt(futures, i)]_vars

C9_Witness ==
    /\ last = "TaskError"
    /\ ~managed
    /\ Len(futures) > 0
    /\ Len(yielded) > 0

\* C10 as claimed: once a call of __next__ has raised a failure, no later call
\* returns an item.
C10_NoItemAfterFailure == [][stats.failed => yielded' = yielded]_vars

\* C10 amended: once a call of a ManagedPipeIterator's __next__ has raised a
\* failure, no later call returns an item.
C10_ManagedNoItemAfterFailure == [][(managed /\ stats.failed) => yielded' = yielded]_vars

C10_Witness ==
    /\ managed
    /\ stats.failed
    /\ stats.cut
    /\ last = "StopIteration"
    /\ Len(yielded) > 0

\* a call of close() by the owner, between two calls of __next__
UserClose == pc = "idle" /\ pc' = "idle" /\ ~FutureDone /\ ~set_context_manager
\* a call of ManagedPipeIterator.__next__ ends with an exception and so with close()
ManagedRaise == managed /\ pc = "run" /\ pc' = "idle" /\ last' # "item"

\* C11: after close(), called by the owner or by the managed __next__, the futures
\* list is empty and every future that was not done was cancelled, the sources
\* list is empty, the async loop and the thread pool are gone, and no submitted
\* task is still unfinished.
C11_CloseReleasesAll ==
    [][(UserClose \/ ManagedRaise) =>
           /\ futures' = <<>>
           /\ sources' = <<>>
           /\ ~thread_pool' /\ ~async_pool'
           /\ stats'.cancelled = stats.cancelled + Pending(futures)
           /\ stats'.running = 0]_vars

C11_Witness ==
    /\ ~managed
    /\ pc = "idle"
    /\ stats.cancelled > 0
    /\ stats.running = 0
    /\ futures = <<>>
    /\ Len(yielded) > 0

\* the exception a call of __next__ that is inside the loop is about to raise
Raised ==
    IF pipe_item # None THEN NextStep(heap, pipe_item).exc
    ELSE IF NewItem(futures, sources).exc # "" THEN NewItem(futures, sources).exc
    ELSE "StopIteration"

\* C12: a ManagedPipeIterator with a context manager set: when __next__ raises
\* StopIteration the context manager is exited with (None, None, None); when it
\* raises another exception E the context manager is exited with E, the sources
\* and futures are emptied, and E is what the caller gets; nothing is returned.
C12_ManagedRelease ==
    [][(ManagedRaise /\ context_manager) =>
           /\ last' = Raised
           /\ ctx_exits' = Append(ctx_exits, IF Raised = "StopIteration" THEN "None" ELSE Raised)
           /\ futures' = <<>>
           /\ sources' = <<>>
           /\ yielded' = yielded]_vars

C12_Witness ==
    /\ managed
    /\ context_manager
    /\ Len(ctx_exits) = 2
    /\ ctx_exits[1] = "TaskError"
    /\ ctx_exits[2] = "None"

\* C13: on a ManagedPipeIterator with a context manager set, every state reached
\* by close() (directly or through the with block's __exit__) has the context
\* manager exited.
C13_CloseExitsContext ==
    [][(UserClose /\ managed /\ context_manager) => Len(ctx_exits') > 0]_vars

\* ------------------------------------------------------------------ pipe editing
\* calls made on the pipes in one run
MaxCalls == 3
\* index arguments range over -MaxIndex..MaxIndex
MaxIndex == 2
\* longest list of pipes handed to clone_pipes
MaxPipes == 3

\* what self._steps[i] and self._steps.pop(i) raise for an i outside -len..len-1
IndexError == [kind |-> "IndexError"]
InRange(p, i) == -Len(p.steps) <= i /\ i < Len(p.steps)
\* the 0-based position the index i designates in a list of n elements
Norm(n, i) == IF i >= 0 THEN i ELSE n + i
\* list.insert(i, x): the 0-based position x lands at in a list of n elements
InsertPos(n, i) ==
    IF i >= 0 THEN (IF i > n THEN n ELSE i) ELSE (IF n + i < 0 THEN 0 ELSE n + i)
InsertAt(s, k, x) == SubSeq(s, 1, k) \o <<x>> \o SubSeq(s, k + 1, Len(s))

IsIterable(step) == step.kind \in {"list", "iterator"}

\* Pipe.gen: self._steps[self._gen_idx]
gen(h, a) == IF InRange(h[a], h[a].gen_idx) THEN PipeAt(h[a], h[a].gen_idx) ELSE IndexError

\* Pipe._wrap_transform_step_meta: the exception raised, "" for none; the callables
\* of the runs take (item, meta) and pass the signature checks
_wrap_transform_step_meta(h, a, step) ==
    IF IsIterable(step) THEN "CreatePipeException" ELSE ""

\* Pipe.append_step with its checks: the heap afterwards and the exception raised;
\* _verify_head_step accepts every Iterable and every callable
AppendStep(h, a, step) ==
    IF Len(h[a].steps) = 0 /\ ~has_parent(h, a)
    THEN [heap |-> append_step(h, a, step), exc |-> ""]
    ELSE IF _wrap_transform_step_meta(h, a, step) # ""
         THEN [heap |-> h, exc |-> _wrap_transform_step_meta(h, a, step)]
         ELSE [heap |-> append_step(h, a, step), exc |-> ""]

\* mutant: a step may be put before the head of any pipe
InsertBeforeHead_Never(h, a, index) == FALSE
\* Pipe.insert_step, lines 173-175
InsertBeforeHead(h, a, index) == index = 0 /\ ~has_parent(h, a)

\* Pipe.insert_step
insert_step(h, a, step, index) ==
    LET n == Len(h[a].steps) IN
    IF n = 0 THEN AppendStep(h, a, step)
    ELSE IF InsertBeforeHead(h, a, index) THEN [heap |-> h, exc |-> "CreatePipeException"]
    ELSE IF _wrap_transform_step_meta(h, a, step) # ""
         THEN [heap |-> h, exc |-> _wrap_transform_step_meta(h, a, step)]
    ELSE [heap |-> [h EXCEPT ![a].steps = InsertAt(@, InsertPos(n, index), step),
                             ![a].gen_idx = IF index <= @ THEN @ + 1 ELSE @],
          exc |-> ""]

\* Pipe.remove_step
remove_step(h, a, index) ==
    IF index = h[a].gen_idx THEN [heap |-> h, exc |-> "CreatePipeException"]
    ELSE IF ~InRange(h[a], index) THEN [heap |-> h, exc |-> "IndexError"]
    ELSE [heap |-> [h EXCEPT ![a].steps = RemoveAt(@, Norm(Len(@), index) + 1),
                             ![a].gen_idx = IF index < @ THEN @ - 1 ELSE @],
          exc |-> ""]

\* Pipe.replace_gen
replace_gen(h, a, step) ==
    IF Len(h[a].steps) = 0 THEN [heap |-> h, exc |-> "AssertionError"]
    ELSE IF ~InRange(h[a], h[a].gen_idx) THEN [heap |-> h, exc |-> "IndexError"]
    ELSE [heap |-> [h EXCEPT ![a].steps[Norm(Len(h[a].steps), h[a].gen_idx) + 1] = step],
          exc |-> ""]

\* Pipe.fork with its check of the forked pipe
Fork(h, a, child_pipe, child_step, copy_on_fork) ==
    IF Len(h[a].steps) = 0 THEN [heap |-> h, exc |-> "CreatePipeException"]
    ELSE [heap |-> fork(h, a, child_pipe, child_step, copy_on_fork), exc |-> ""]

\* Pipe.evaluate_gen with its checks; a callable head of the runs needs an item and
\* cannot be called without arguments
EvaluateGen(h, a) ==
    IF ~is_data_bound(h, a) THEN [heap |-> h, exc |-> "PipeNotBoundToData"]
    ELSE IF gen(h, a) = IndexError THEN [heap |-> h, exc |-> "IndexError"]
    ELSE IF ~has_parent(h, a) /\ ~IsIterable(gen(h, a))
         THEN [heap |-> h, exc |-> "ParametrizedResourceUnbound"]
    ELSE [heap |-> evaluate_gen(h, a), exc |-> ""]

\* the function objects handed to the pipes, each a new one
EditKinds == <<"inc", "even", "raise2", "upto", "defer", "async">>
Kinds(p) == {p.steps[i].kind : i \in DOMAIN p.steps}
FreshStep(h, a) ==
    Transform(EditKinds[CHOOSE i \in DOMAIN EditKinds :
                            /\ EditKinds[i] \notin Kinds(h[a])
                            /\ \A j \in 1..(i - 1) : EditKinds[j] \in Kinds(h[a])])
NewSteps(h, a) == {FreshStep(h, a), ListHead(<<Data(1)>>)}
Indices == (0 - MaxIndex)..MaxIndex

\* the pipe graphs of the runs and the pipe the calls are made on
Root == NewPipe("r", <<ListHead(<<Data(1), Data(2)>>)>>, NoPipe, 1)
PipeSetups ==
    { [heap |-> <<Root>>, subject |-> 1],
      [heap |-> <<NewPipe("p", <<ListHead(<<Data(1)>>), Transform("inc")>>, NoPipe, 1)>>,
       subject |-> 1],
      [heap |-> <<NewPipe("e", <<>>, NoPipe, 1)>>, subject |-> 1],
      [heap |-> <<Root, NewPipe("t", <<Transform("inc")>>, 1, 2)>>, subject |-> 2],
      [heap |-> <<Root, NewPipe("t", <<>>, 1, 2)>>, subject |-> 2],
      [heap |-> fork(<<Root, NewPipe("c1", <<Transform("inc")>>, 1, 2),
                       NewPipe("c2", <<Transform("even")>>, 1, 3)>>, 1, 2, -1, FALSE),
       subject |-> 1],
      [heap |-> <<Root, NewPipe("m", <<Transform("inc")>>, 1, 2),
                  NewPipe("c1", <<Transform("even")>>, 2, 3),
                  NewPipe("c2", <<Transform("inc")>>, 2, 4)>>, subject |-> 3],
      [heap |-> <<Root, NewPipe("m", <<>>, 1, 2),
                  NewPipe("c1", <<Transform("even")>>, 2, 3),
                  NewPipe("c2", <<Transform("inc")>>, 2, 4)>>, subject |-> 3] }

\* the dispatcher's variables, which no call on a pipe touches
dispatcher == <<managed, sources, futures, thread_pool, async_pool, context_manager,
                ctx_exits, pc, pipe_item, yielded, stats>>

NoCall == [op |-> "none", pipe |-> NoPipe, step |-> None, index |-> 0, child |-> NoPipe,
           keep_pipe_id |-> TRUE, copy_on_fork |-> FALSE, pipes |-> <<>>, result |-> <<>>]

PipeInit ==
    \E s \in PipeSetups :
        /\ heap = s.heap
        /\ input = [subject |-> s.subject, calls |-> 0, call |-> NoCall, before |-> s.heap]
        /\ last = "none"
        /\ managed = FALSE
        /\ sources = <<>>
        /\ futures = <<>>
        /\ thread_pool = FALSE
        /\ async_pool = FALSE
        /\ context_manager = FALSE
        /\ ctx_exits = <<>>
        /\ pc = "edit"
        /\ pipe_item = None
        /\ yielded = <<>>
        /\ stats = [pulled |-> 0, spawned |-> 0, replaced |-> 0, dropped |-> 0,
                    stops |-> 0, failed |-> FALSE, cut |-> FALSE,
                    running |-> 0, cancelled |-> 0]

\* a call was made: r is the heap it leaves and the exception it raised
Called(call, r) ==
    /\ input.calls < MaxCalls
    /\ heap' = r.heap
    /\ last' = IF r.exc = "" THEN "ok" ELSE r.exc
    /\ input' = [input EXCEPT !.calls = @ + 1, !.call = call, !.before = heap]
    /\ UNCHANGED dispatcher

CallAppendStep ==
    \E step \in NewSteps(heap, input.subject) :
        Called([NoCall EXCEPT !.op = "append_step", !.pipe = input.subject, !.step = step],
               AppendStep(heap, input.subject, step))

CallInsertStep ==
    \E step \in NewSteps(heap, input.subject), index \in Indices :
        Called([NoCall EXCEPT !.op = "insert_step", !.pipe = input.subject, !.step = step,
                              !.index = index],
               insert_step(heap, input.subject, step, index))

CallRemoveStep ==
    \E index \in Indices :
        Called([NoCall EXCEPT !.op = "remove_step", !.pipe = input.subject, !.index = index],
               remove_step(heap, input.subject, index))

CallReplaceGen ==
    \E step \in NewSteps(heap, input.subject) :
        Called([NoCall EXCEPT !.op = "replace_gen", !.pipe = input.subject, !.step = step],
               replace_gen(heap, input.subject, step))

CallFork ==
    \E child \in DOMAIN heap, copy_on_fork \in BOOLEAN :
        Called([NoCall EXCEPT !.op = "fork", !.pipe = input.subject, !.child = child,
                              !.copy_on_fork = copy_on_fork],
               Fork(heap, input.subject, child, -1, copy_on_fork))

\* any pipe is cloned with the default keep_pipe_id, the subject also without
CallClone ==
    \E a \in DOMAIN heap, keep_pipe_id \in BOOLEAN :
        /\ ~keep_pipe_id => a = input.subject
        /\ Called([NoCall EXCEPT !.op = "_clone", !.pipe = a, !.keep_pipe_id = keep_pipe_id,
                                 !.result = <<Len(heap) + 1>>],
                  [heap |-> _clone(heap, a, keep_pipe_id), exc |-> ""])

CallEvaluateGen ==
    Called([NoCall EXCEPT !.op = "evaluate_gen", !.pipe = input.subject],
           EvaluateGen(heap, input.subject))

\* lists of up to MaxPipes different pipes of the graph
PipeLists(h) ==
    {ps \in UNION {[1..k -> DOMAIN h] : k \in 1..MaxPipes} :
        \A i, j \in DOMAIN ps : i # j => ps[i] # ps[j]}

\* PipeIterator.clone_pipes called on the graph as it was built
CallClonePipes ==
    /\ input.calls = 0
    /\ \E ps \in PipeLists(heap) :
           Called([NoCall EXCEPT !.op = "clone_pipes", !.pipes = ps,
                                 !.result = clone_pipes(heap, ps).pipes],
                  [heap |-> clone_pipes(heap, ps).heap, exc |-> ""])

PipeNext ==
    \/ CallAppendStep
    \/ CallInsertStep
    \/ CallRemoveStep
    \/ CallReplaceGen
    \/ CallFork
    \/ CallClone
    \/ CallEvaluateGen
    \/ CallClonePipes

PipeSpec == PipeInit /\ [][PipeNext]_vars

\* ------------------------------------------------------------------ claims on pipes
\* the pipe the last call was made on, before and after the call
Target == input.call.pipe
Was == input.before[Target]
Now == heap[Target]
\* _gen_idx designates a step the way the code means it to
ValidGen(p) == 0 <= p.gen_idx /\ p.gen_idx < Len(p.steps)
IsFork(p) == Len(p.steps) > 0 /\ p.steps[Len(p.steps)].kind = "fork"
NForks(p) == Cardinality({i \in DOMAIN p.steps : p.steps[i].kind = "fork"})
EdgePipes(fork_step) == {fork_step.pipes[i].pipe : i \in DOMAIN fork_step.pipes}

\* the pipes reachable from a through parent links, a included
RECURSIVE Ancestors(_, _)
Ancestors(h, a) == IF a = NoPipe THEN {} ELSE {a} \cup Ancestors(h, h[a].parent)
\* everything reachable from the clones clone_pipes returned
Reached == UNION {Ancestors(heap, input.call.result[i]) : i \in DOMAIN input.call.result}
\* the pipe a clone was made from: _clone keeps the pipe id, which an original of
\* the runs minted from its own address
Orig(x) == heap[x].pipe_id

\* C14: clone_pipes(S) returns one fresh clone per input pipe; two pipes reachable
\* from the returned clones whose originals had the same parent have the same
\* parent object; and no pipe reachable from a returned clone through parent links
\* is one of the original pipes.
C14_ClonePipes ==
    input.call.op = "clone_pipes" =>
        LET S == input.call.pipes
            R == input.call.result
            n == Len(input.before)
        IN /\ Len(R) = Len(S)
           /\ \A i \in DOMAIN R :
                  /\ R[i] > n
                  /\ heap[R[i]].pipe_id = S[i]
                  /\ heap[R[i]].steps = input.before[S[i]].steps
                  /\ \A j \in DOMAIN R : i # j => R[i] # R[j]
           /\ \A x, y \in Reached :
                  input.before[Orig(x)].parent = input.before[Orig(y)].parent =>
                      heap[x].parent = heap[y].parent
           /\ \A x \in Reached : x > n

\* the last call removed the step that was the data generating step
RemovedGen ==
    /\ input.call.op = "remove_step"
    /\ last = "ok"
    /\ Norm(Len(Was.steps), input.call.index) = Was.gen_idx

\* C15: a call of append_step, insert_step or remove_step that does not remove the
\* step at gen_index leaves the step the gen property returns unchanged.
C15_HeadStable ==
    (/\ input.call.op \in {"append_step", "insert_step", "remove_step"}
     /\ ValidGen(Was)
     /\ ~RemovedGen)
    => gen(heap, Target) = gen(input.before, Target)

\* C16: in every non-empty pipe 0 <= gen_index <= len(steps) - 1.
C16_GenIndexInBounds ==
    \A a \in DOMAIN heap : Len(heap[a].steps) > 0 => ValidGen(heap[a])

\* C17: remove_step with an index that designates the step at gen_index raises
\* CreatePipeException and leaves the steps and gen_index as they were.
C17_GenNeverRemoved ==
    (/\ input.call.op = "remove_step"
     /\ ValidGen(Was)
     /\ InRange(Was, input.call.index)
     /\ Norm(Len(Was.steps), input.call.index) = Was.gen_idx)
    => (last = "CreatePipeException" /\ heap = input.before)

C19_ForkIdempotent ==
    (input.call.op = "fork" /\ last = "ok") =>
        LET tail == Now.steps[Len(Now.steps)]
            child == input.call.child
        IN /\ IsFork(Now)
           /\ IF IsFork(Was)
              THEN LET was_tail == Was.steps[Len(Was.steps)] IN
                   /\ Len(Now.steps) = Len(Was.steps)
                   /\ NForks(Now) = NForks(Was)
                   /\ tail.pipes = IF child \in EdgePipes(was_tail) THEN was_tail.pipes
                                   ELSE Append(was_tail.pipes, [pipe |-> child, step |-> -1])
              ELSE /\ Now.steps = Append(Was.steps, tail)
                   /\ NForks(Now) = NForks(Was) + 1
                   /\ tail.pipes = <<[pipe |-> child, step |-> -1]>>
           /\ \A i, j \in DOMAIN tail.pipes : i # j => tail.pipes[i].pipe # tail.pipes[j].pipe
           /\ Len(ForkCall(tail, Data(1), None).xs) = Cardinality(EdgePipes(tail))

C19_Witness ==
    /\ input.call.op = "fork"
    /\ last = "ok"
    /\ IsFork(Was)
    /\ input.call.child \in EdgePipes(Was.steps[Len(Was.steps)])
    /\ Cardinality(EdgePipes(Now.steps[Len(Now.steps)])) > 1

\* C20: a Fork that has an edge to a pipe C takes a clone of C that carries C's
\* pipe id for C: fork(clone) after fork(C) adds no second edge.
C20_ForkKnowsClones ==
    (/\ input.call.op = "fork"
     /\ last = "ok"
     /\ IsFork(Was)
     /\ \E c \in EdgePipes(Was.steps[Len(Was.steps)]) :
            input.before[c].pipe_id = input.before[input.call.child].pipe_id)
    => Now.steps = Was.steps

\* ------------------------------------------------------------------ claims on the dispatcher, continued
\* the current item of __next__ stands at the final step of its pipe and is an
\* iterator, an awaitable or a callable
UnresolvedAtEnd == HaveItem /\ AtEndOfPipe(heap, pipe_item) /\ Unresolved(pipe_item.item)

\* C21 as claimed: when the value that reaches the final step of its pipe is still
\* an iterator, an awaitable or a callable, __next__ raises PipeItemProcessingError.
C21_UnresolvedAtEndRaises ==
    [][(UnresolvedAtEnd /\ pipe_item' # pipe_item) => last' = "PipeItemProcessingError"]_vars

\* C21 amended: an iterator, awaitable or callable standing at the final step of
\* its pipe is resolved as at any other step: the iterator becomes the newest
\* source, the awaitable or callable a listed future, both at the item's step, pipe
\* and meta, and the call goes on; no call of __next__ ends with
\* PipeItemProcessingError.
C21_UnresolvedAtEndResolved ==
    [][/\ last' # "PipeItemProcessingError"
       /\ (UnresolvedAtEnd /\ pipe_item' # pipe_item) =>
              /\ pc' = "run" /\ pipe_item' = None /\ last' = last /\ yielded' = yielded
              /\ IF IsIterator(pipe_item.item)
                 THEN /\ sources' = Append(sources, SourcePipeItem(pipe_item.item, pipe_item.step,
                                                                   pipe_item.pipe, pipe_item.meta))
                      /\ futures' = futures
                 ELSE /\ Len(futures') = Len(futures) + 1
                      /\ SubSeq(futures', 1, Len(futures)) = futures
                      /\ LET f == futures'[Len(futures')] IN
                         /\ f.step = pipe_item.step
                         /\ f.pipe = pipe_item.pipe
                         /\ f.meta = pipe_item.meta
                         /\ f.item.task = pipe_item.item.task
                      /\ sources' = sources]_vars

\* an iterator returned by the last step of a pipe with several steps was made
\* the newest source and items of it were yielded
C21_Witness ==
    /\ Len(sources) >= 2
    /\ LET top == sources[Len(sources)] IN
       /\ top.step >= 1
       /\ top.step = Len(heap[top.pipe].steps) - 1
       /\ \A i \in DOMAIN top.item.xs : top.item.xs[i].t = "data"
       /\ \E i \in DOMAIN yielded : yielded[i].pipe = top.pipe

\* ------------------------------------------------------------------ runs with meta
\* the transforms of the runs with meta, and the items of their root pipes: plain
\* items and items a resource yields wrapped in DataItemWithMeta
MetaKinds == {"even", "upto", "async", "raise2", "tag", "deftag"}
MetaVals == {Data(1), Data(2), DataItemWithMeta(Data(1), Meta("a")),
             DataItemWithMeta(Data(2), Meta("b"))}

\* Pipe("p", [xs, *chain]) handed to from_pipe, and a root with two transformer
\* pipes handed to from_pipes
MetaSetups ==
    {[mode |-> "from_pipe",
      heap |-> <<NewPipe("p", <<ListHead(xs)>> \o Steps(c), NoPipe, 1)>>,
      pipes |-> <<1>>, yield_parents |-> FALSE, copy_on_fork |-> FALSE, data |-> xs] :
        xs \in SeqsUpTo(MetaVals, MaxSrcLen), c \in SeqsUpTo(MetaKinds, MaxTransforms)}
    \cup
    {[mode |-> "from_pipes",
      heap |-> <<NewPipe("parent", <<ListHead(xs)>>, NoPipe, 1),
                 NewPipe("c1", <<Transform(k1)>>, 1, 2),
                 NewPipe("c2", <<Transform("upto")>>, 1, 3)>>,
      pipes |-> <<1, 2, 3>>, yield_parents |-> TRUE, copy_on_fork |-> FALSE, data |-> xs] :
        xs \in SeqsUpTo(MetaVals, MaxSrcLen), k1 \in {"tag", "deftag"}}

\* PipeIterator.__init__ followed by from_pipe / from_pipes
MetaInit ==
    \E s \in MetaSetups, m \in BOOLEAN :
        /\ heap = Build(s).heap
        /\ sources = Build(s).sources
        /\ input = [mode |-> s.mode, pipes |-> s.pipes, yield_parents |-> s.yield_parents,
                    data |-> s.data]
        /\ managed = m
        /\ futures = <<>>
        /\ thread_pool = FALSE
        /\ async_pool = FALSE
        /\ context_manager = FALSE
        /\ ctx_exits = <<>>
        /\ pc = "idle"
        /\ pipe_item = None
        /\ last = "none"
        /\ yielded = <<>>
        /\ stats = [pulled |-> 0, spawned |-> 0, replaced |-> 0, dropped |-> 0,
                    stops |-> 0, failed |-> FALSE, cut |-> FALSE,
                    running |-> 0, cancelled |-> 0]

MetaSpec == MetaInit /\ [][Next]_vars

\* ------------------------------------------------------------------ claims on meta
\* the transforms an item of the root passes on its way to the end of pipe a
RECURSIVE PathKinds(_, _)
PathKinds(h, a) ==
    LET own == SelectSeq(h[a].steps, LAMBDA st : st.kind \notin {"list", "iterator", "fork"})
    IN (IF has_parent(h, a) THEN PathKinds(h, h[a].parent) ELSE <<>>)
       \o [i \in DOMAIN own |-> own[i].kind]

\* what the steps chain[i..] make of the item x carrying meta: the set of
\* <<item, meta>> pairs that come out of the last step
RECURSIVE Outputs(_, _, _, _)
Outputs(chain, i, x, meta) ==
    IF i > Len(chain) THEN {<<x, meta>>}
    ELSE LET k == chain[i] IN
         CASE k = "even" -> IF x.v % 2 = 0 THEN Outputs(chain, i + 1, x, meta) ELSE {}
           [] k = "upto" -> UNION {Outputs(chain, i + 1, Data(j), meta) : j \in 1..(x.v - 1)}
           [] k = "async" -> IF x.v # 2 THEN Outputs(chain, i + 1, Data(x.v * x.v), meta) ELSE {}
           [] k = "raise2" -> IF x.v # 2 THEN Outputs(chain, i + 1, x, meta) ELSE {}
           [] k = "tag" -> Outputs(chain, i + 1, x, Meta("tag"))
           [] k = "deftag" -> Outputs(chain, i + 1, x, Meta("deftag"))

\* the <<item, meta>> pairs the items of the root may leave pipe a with
Expected(a) ==
    UNION {Outputs(PathKinds(heap, a), 1,
                   IF input.data[i].t = "dwm" THEN input.data[i].data ELSE input.data[i],
                   IF input.data[i].t = "dwm" THEN input.data[i].meta ELSE None) :
               i \in DOMAIN input.data}

\* C22: every yielded PipeItem carries the meta its item had when it came from the
\* source (the meta of the DataItemWithMeta the source delivered, else none),
\* unchanged by iterator expansion, fork routing and offload to a pool, unless a
\* transform or a completed future delivered DataItemWithMeta, whose meta then
\* replaces it for all later steps.
C22_MetaPropagation ==
    \A i \in DOMAIN yielded :
        <<yielded[i].item, yielded[i].meta>> \in Expected(yielded[i].pipe)

\* items with a meta from the source, from a transform and from a completed future
\* were yielded, one of them out of an expanded iterator
C22_Witness ==
    /\ \E i \in DOMAIN yielded : yielded[i].meta \in {Meta("a"), Meta("b")}
    /\ \E i \in DOMAIN yielded : yielded[i].meta \in {Meta("tag"), Meta("deftag")}
    /\ Len(yielded) >= 3

\* ------------------------------------------------------------------ graph assembly
\* the longest list of pipes handed to from_pipes
MaxListed == 2

\* the pipe graphs handed to from_pipes: a root with two transformers; a root, a
\* transformer on it and two transformers on that one; two roots with one
\* transformer each
AssemblyGraphs ==
    { <<Root, NewPipe("c1", <<Transform("inc")>>, 1, 2),
              NewPipe("c2", <<Transform("even")>>, 1, 3)>>,
      <<Root, NewPipe("m", <<Transform("inc")>>, 1, 2),
              NewPipe("c1", <<Transform("even")>>, 2, 3),
              NewPipe("c2", <<Transform("inc")>>, 2, 4)>>,
      <<Root, NewPipe("r2", <<ListHead(<<Data(1)>>)>>, NoPipe, 2),
              NewPipe("c1", <<Transform("inc")>>, 1, 3),
              NewPipe("c2", <<Transform("inc")>>, 2, 4)>> }

\* the graph and the arguments of the from_pipes call to come
AssemblyInit ==
    \E g \in AssemblyGraphs, yp \in BOOLEAN :
    \E ps \in SeqsUpTo(DOMAIN g, MaxListed) \ {<<>>} :
        /\ heap = g
        /\ input = [mode |-> "from_pipes", pipes |-> ps, yield_parents |-> yp, graph |-> g]
        /\ sources = <<>>
        /\ pc = "new"
        /\ last = "none"
        /\ managed = FALSE
        /\ futures = <<>>
        /\ thread_pool = FALSE
        /\ async_pool = FALSE
        /\ context_manager = FALSE
        /\ ctx_exits = <<>>
        /\ pipe_item = None
        /\ yielded = <<>>
        /\ stats = [pulled |-> 0, spawned |-> 0, replaced |-> 0, dropped |-> 0,
                    stops |-> 0, failed |-> FALSE, cut |-> FALSE,
                    running |-> 0, cancelled |-> 0]

\* PipeIterator.from_pipes(pipes, yield_parents)
CallFromPipes ==
    /\ pc = "new"
    /\ LET r == from_pipes(heap, input.pipes, input.yield_parents, FALSE) IN
       /\ heap' = r.heap
       /\ sources' = r.sources
    /\ pc' = "idle"
    /\ UNCHANGED <<input, managed, futures, thread_pool, async_pool, context_manager,
                   ctx_exits, pipe_item, last, yielded, stats>>

AssemblySpec == AssemblyInit /\ [][CallFromPipes]_vars

\* the root pipe a is attached to
RECURSIVE RootOf(_, _)
RootOf(h, a) == IF has_parent(h, a) THEN RootOf(h, h[a].parent) ELSE a

\* the number of times pipe a is listed in ps
Listed(ps, a) == Cardinality({i \in DOMAIN ps : ps[i] = a})

FromSource(src, x) ==
    IF x.t = "rpi" THEN x
    ELSE IF x.t = "dwm" THEN ResolvablePipeItem(x.data, src.step, src.pipe, x.meta)
    ELSE ResolvablePipeItem(x, src.step, src.pipe, src.meta)

\* a step inside a call of __next__ that does not end in a failure
Dispatching == pc = "run" /\ (pc' = "run" \/ last' \in {"item", "StopIteration"})

\* C24: inside __next__ the sources list changes in two ways only. An iterator item
\* is appended as the newest source with the item's step, pipe and meta. Or the
\* newest sources that are exhausted are removed and one item is read from the
\* newest source left, which becomes the current item. A source below the newest
\* one is neither read nor removed while a source above it has items.
C24_SourcesAreLIFO ==
    [][Dispatching =>
        LET n == Len(sources)
            k == Len(sources')
        IN \/ sources' = sources
           \/ /\ k = n + 1
              /\ SubSeq(sources', 1, n) = sources
              /\ HaveItem /\ IsIterator(pipe_item.item)
              /\ sources'[k] = SourcePipeItem(pipe_item.item, pipe_item.step,
                                              pipe_item.pipe, pipe_item.meta)
           \/ /\ k <= n
              /\ NeedItem
              /\ \A i \in (k + 1)..n : Len(sources[i].item.xs) = 0
              /\ \A i \in 1..(k - 1) : sources'[i] = sources[i]
              /\ k > 0 =>
                    /\ Len(sources[k].item.xs) > 0
                    /\ sources'[k] = [sources[k] EXCEPT !.item.xs = Tail(@)]
                    /\ pipe_item' = FromSource(sources[k], Head(sources[k].item.xs))
              /\ k = 0 => pipe_item' = None]_vars

\* the iterator a transform returned is the newest source and has just been read
\* to its end, while the source below it still has items
C24_Witness ==
    /\ pc = "run"
    /\ Len(sources) >= 2
    /\ Len(sources[Len(sources) - 1].item.xs) > 0
    /\ sources[Len(sources)].step >= 1
    /\ sources[Len(sources)].item.xs = <<>>
    /\ pipe_item # None
    /\ pipe_item.step = sources[Len(sources)].step

\* the positions of the listed futures that are done
DoneAt(fs) == {i \in DOMAIN fs : done(fs[i].item)}
\* the smallest of a non-empty set of positions
Least(S) == CHOOSE i \in S : \A j \in S : i <= j

\* a step of __next__ that looks for a new item while a listed future is done
\* takes the first done future
TakesFirstDone ==
    (NeedItem /\ ~FutureDone /\ DoneAt(futures) # {}) =>
        LET i == Least(DoneAt(futures))
            f == futures[i]
            res == f.item.task.res
        IN IF f.item.task.raises
           THEN /\ pc' = "idle"
                /\ last' = "TaskError"
                /\ futures' = IF managed THEN <<>> ELSE RemoveAt(futures, i)
           ELSE /\ futures' = RemoveAt(futures, i)
                /\ sources' = sources
                /\ pc' = "run"
                /\ pipe_item' = IF res.t = "dwm"
                                THEN ResolvablePipeItem(res.data, f.step, f.pipe, res.meta)
                                ELSE ResolvablePipeItem(res, f.step, f.pipe, f.meta)

\* a step of __next__ that reads or removes a source found no listed future done
SourceOnlyIfNoneDone ==
    (NeedItem /\ ~FutureDone /\ sources' # sources /\ Dispatching) => DoneAt(futures) = {}

\* C25: when __next__ needs a new item and a listed future is done, the done
\* future with the smallest position leaves the list, no other entry does, its
\* result becomes the current item at the step, pipe and meta stored with the
\* future (or its exception is raised), and no source is read; a source is read
\* only when no listed future is done.
C25_DoneFutureFirst == [][TakesFirstDone /\ SourceOnlyIfNoneDone]_vars

\* the result of a future is the current item while another future, submitted
\* after it and done as well, stays listed
C25_Witness ==
    /\ pc = "run"
    /\ pipe_item # None
    /\ pipe_item.item.t = "data"
    /\ pipe_item.step >= 1
    /\ PipeAt(heap[pipe_item.pipe], pipe_item.step).kind \in {"defer", "async"}
    /\ DoneAt(futures) # {}

\* the current item of __next__ is a callable or an awaitable
Offloadable == HaveItem /\ ~IsIterator(pipe_item.item)
               /\ (IsAwaitable(pipe_item.item) \/ IsCallable(pipe_item.item))

\* a step of __next__ on such an item: it is submitted if the list has room or a
\* listed future is done, else everything stays as it is
AdmitsUnderCap ==
    (Offloadable /\ ~FutureDone) =>
        IF Len(futures) < max_parallel_items \/ DoneAt(futures) # {}
        THEN /\ Len(futures') = Len(futures) + 1
             /\ SubSeq(futures', 1, Len(futures)) = futures
             /\ LET f == futures'[Len(futures')] IN
                /\ f.item.state = "pending"
                /\ f.item.task = pipe_item.item.task
                /\ f.step = pipe_item.step
                /\ f.pipe = pipe_item.pipe
                /\ f.meta = pipe_item.meta
             /\ pipe_item' = None
             /\ sources' = sources
             /\ pc' = "run"
        ELSE /\ pipe_item' = pipe_item
             /\ futures' = futures
             /\ sources' = sources
             /\ yielded' = yielded
             /\ pc' = "run"

\* C26: a callable or awaitable item is submitted only when the futures list has
\* fewer than max_parallel_items entries or a listed future is done; otherwise it
\* stays the current item and nothing else is taken or dropped; the listed futures
\* that are not done never number more than max_parallel_items.
C26_AdmissionUnderCap ==
    [][AdmitsUnderCap /\ Pending(futures') <= max_parallel_items]_vars

\* a callable item is refused: the list is full and no listed future is done
C26_Witness ==
    /\ Offloadable
    /\ Len(futures) = max_parallel_items
    /\ DoneAt(futures) = {}

\* ------------------------------------------------------------------ claims on fork routing
\* the current item of __next__ is a plain value routed by a fork edge with the
\* default entry step -1 into a pipe that has steps
RoutedByDefault ==
    /\ HaveItem
    /\ pipe_item.step = -1
    /\ Len(heap[pipe_item.pipe].steps) > 0
    /\ ~Unresolved(pipe_item.item)

\* C27 as claimed: an item routed with the default entry step -1 stands at the
\* child's final step: the dispatcher treats it as at the end of the child pipe
\* and yields it.
C27_DefaultEntryIsLastStep ==
    [][(RoutedByDefault /\ pipe_item' # pipe_item) =>
           /\ Len(yielded') = Len(yielded) + 1
           /\ yielded'[Len(yielded')].item = pipe_item.item
           /\ yielded'[Len(yielded')].pipe = pipe_item.pipe]_vars

\* C27 amended: an item routed by a fork edge enters the child pipe positioned at
\* the edge's entry step, and the step applied to it next is the one after the
\* entry step. With the default entry step -1 that is the child's first step
\* (index 0): the item stands before the first step and passes every step of the
\* child; nothing is yielded before that. An edge with entry step len(child) - 1
\* makes the item stand at the end of the child, where it is yielded as it is.
C27_DefaultEntryIsBeforeFirstStep ==
    [][/\ (RoutedByDefault /\ pipe_item' # pipe_item) =>
              LET first == heap[pipe_item.pipe].steps[1]
                  r == CallStep(first.kind, pipe_item.item, pipe_item.meta)
              IN /\ first.kind # "fork"
                 /\ yielded' = yielded
                 /\ IF r.exc # "" THEN pc' = "idle" /\ last' \notin {"item", "StopIteration"}
                    ELSE IF r.val = None THEN pipe_item' = None /\ pc' = "run"
                    ELSE pipe_item' = ResolvablePipeItem(r.val, 0, pipe_item.pipe, pipe_item.meta)
       /\ (/\ HaveItem
           /\ pipe_item.step = Len(heap[pipe_item.pipe].steps) - 1
           /\ PipeAt(heap[pipe_item.pipe], pipe_item.step).kind = "fork"
           /\ ~Unresolved(pipe_item.item)
           /\ pipe_item' # pipe_item) =>
              yielded' = Append(yielded, [item |-> pipe_item.item, step |-> pipe_item.step,
                                          pipe |-> pipe_item.pipe, meta |-> pipe_item.meta])]_vars

\* an item routed with entry step -1 went through the child's only step and was
\* yielded at step 0 of the child
C27_Witness ==
    \E i \in DOMAIN yielded :
        /\ has_parent(heap, yielded[i].pipe)
        /\ yielded[i].step = 0
        /\ yielded[i].item = Data(2)
        /\ heap[yielded[i].pipe].steps[1].kind = "inc"

\* the last call was a fork call that added an edge to the pipe's Fork
AddedEdge ==
    /\ input.call.op = "fork"
    /\ last = "ok"
    /\ IsFork(Now)
    /\ IsFork(Was) => Len(Now.steps[Len(Now.steps)].pipes) = Len(Was.steps[Len(Was.steps)].pipes) + 1

\* C28: the Fork emits one routed item per edge, in the order the edges were added;
\* the first edge gets the item itself; the edge added by a call
\* fork(child, entry_step, copy_on_fork) gets a shallow copy of the item if it is
\* not the first edge and that call's copy_on_fork was true, and else the item
\* itself.
C28_PerEdgeCopy ==
    AddedEdge =>
        LET tail == Now.steps[Len(Now.steps)]
            out == ForkCall(tail, Data(1), None).xs
            n == Len(tail.pipes)
        IN /\ Len(out) = n
           /\ \A i \in 1..n : out[i].pipe = tail.pipes[i].pipe /\ out[i].step = tail.pipes[i].step
           /\ out[1].item = Data(1)
           /\ out[n].item = IF n > 1 /\ input.call.copy_on_fork THEN copy(Data(1)) ELSE Data(1)

\* ------------------------------------------------------------------ claims on the managed iterator, continued
\* C29: over any sequence of __next__ calls that follows one set_context_manager
\* call the context manager's __exit__ is called at most once.
C29_ExitAtMostOnce == Len(ctx_exits) <= 1

\* ------------------------------------------------------------------ claims on cloning, continued
\* C30: the clone of a pipe built by append_step/insert_step/remove_step has the
\* same data-generating step as the pipe: clone.gen is P.gen.
C30_CloneKeepsGen ==
    (input.call.op = "_clone" /\ ValidGen(Was))
        => gen(heap, input.call.result[1]) = gen(heap, Target)

\* ------------------------------------------------------------------ building dispatchers from the same pipes
\* the caller builds up to MaxBuilds dispatchers, one after the other, from the
\* same pipes
MaxBuilds == 2

\* a root with two transformers on which the caller has already called
\* root.fork(c1)
ForkedGraph ==
    fork(<<Root, NewPipe("c1", <<Transform("inc")>>, 1, 2),
                 NewPipe("c2", <<Transform("even")>>, 1, 3)>>, 1, 2, -1, FALSE)

ReuseGraphs == AssemblyGraphs \cup {ForkedGraph}

\* the caller's pipes and the arguments of the calls to come: from_pipe(pipe) or
\* from_pipes(pipes, yield_parents)
ReuseInit ==
    \E g \in ReuseGraphs, yp \in BOOLEAN, mode \in {"from_pipe", "from_pipes"} :
    \E ps \in SeqsUpTo(DOMAIN g, MaxListed) \ {<<>>} :
        /\ mode = "from_pipe" => Len(ps) = 1 /\ ~yp
        /\ heap = g
        /\ input = [mode |-> mode, pipes |-> ps, yield_parents |-> yp, graph |-> g, builds |-> 0]
        /\ sources = <<>>
        /\ pc = "new"
        /\ last = "none"
        /\ managed = FALSE
        /\ futures = <<>>
        /\ thread_pool = FALSE
        /\ async_pool = FALSE
        /\ context_manager = FALSE
        /\ ctx_exits = <<>>
        /\ pipe_item = None
        /\ yielded = <<>>
        /\ stats = [pulled |-> 0, spawned |-> 0, replaced |-> 0, dropped |-> 0,
                    stops |-> 0, failed |-> FALSE, cut |-> FALSE,
                    running |-> 0, cancelled |-> 0]

\* PipeIterator.from_pipe(pipe) or PipeIterator.from_pipes(pipes, yield_parents)
\* on the caller's pipes as they are now; sources is the new dispatcher's list
CallBuild ==
    /\ input.builds < MaxBuilds
    /\ LET r == IF input.mode = "from_pipe" THEN from_pipe(heap, input.pipes[1])
                ELSE from_pipes(heap, input.pipes, input.yield_parents, FALSE) IN
       /\ heap' = r.heap
       /\ sources' = r.sources
    /\ input' = [input EXCEPT !.builds = @ + 1]
    /\ pc' = "idle"
    /\ UNCHANGED <<managed, futures, thread_pool, async_pool, context_manager,
                   ctx_exits, pipe_item, last, yielded, stats>>

ReuseSpec == ReuseInit /\ [][CallBuild]_vars

\* C31: building a dispatcher with from_pipe or from_pipes leaves every pipe of the
\* caller as it was: its step list with the fork edges in it, its parent link and
\* its gen index.
C31_CallerPipesUntouched ==
    \A a \in DOMAIN input.graph : heap[a] = input.graph[a]

====
